---- MODULE Spec2Model ----
(***************************************************************************)
(* Model of the HFS client (src/hfs_api/api.py): the upload of a file or   *)
(* a folder (HFS.upload, HFS._upload_folder, HFS._upload_file) and the     *)
(* creation of nested folders (HFS.create_folder, HFS._create_folder_one), *)
(* against a remote whose answers are nondeterministic.                    *)
(*                                                                         *)
(* A path is a record [abs, segs]: abs says whether the string starts with *)
(* the separator, segs are the components between separators (POSIX        *)
(* os.path, os.sep = "/").                                                 *)
(***************************************************************************)
EXTENDS Integers, Sequences, FiniteSets, TLC

VARIABLES
    pc,          \* position of the running call: idle, walk, put, mk, done, raised
    op,          \* the public method running: none, file, folder, create_folder
    err,         \* the exception that left the call, "" if none
    local_path,  \* upload's local_path argument
    remote_path, \* upload's remote_path argument
    exists,      \* upload's `exists` argument (the conflict policy value)
    files,       \* what os.walk yields under local_path: paths relative to it
    sizes,       \* os.path.getsize of each walked file (or of the single file)
    idx,         \* 1-based position of the for loop of _upload_folder
    local_file,  \* loop variable of _upload_folder / local_path of _upload_file
    remote_file, \* loop local of _upload_folder
    remote,      \* the paths that exist on the server
    log,         \* the HTTP requests issued by the running call, with their answers
    out,         \* the lines printed by the running call: <<colour, status>>
    folder_name, \* create_folder's argument
    components,  \* create_folder's local `components`
    i,           \* 0-based loop index of create_folder
    calls,       \* number of create_folder calls started in this session
    prev,        \* the previous create_folder call: its argument, requests and end
    args,        \* the arguments of a running list or delete call
    stdin,       \* the lines input() has read from the user during the call
    response,    \* the answer of the server to the request of a list call
    ret          \* what a list or delete call returned

vars == <<pc, op, err, local_path, remote_path, exists, files, sizes, idx,
          local_file, remote_file, remote, log, out, folder_name, components,
          i, calls, prev, args, stdin, response, ret>>

----------------------------------------------------------------------------
(* Bounds of the model *)

\* longest local tree that is walked (number of regular files)
MaxFiles == 3

\* number of successive create_folder calls in one session
MaxCalls == 2

----------------------------------------------------------------------------
(* os.path on POSIX *)

P(a, s) == [abs |-> a, segs |-> s]

Last(s) == s[Len(s)]

Front(s) == SubSeq(s, 1, Len(s) - 1)

RECURSIVE NormSegs(_, _, _)
NormSegs(a, s, acc) ==
    IF s = <<>> THEN acc
    ELSE LET c == Head(s) IN
         IF c = "" \/ c = "." THEN NormSegs(a, Tail(s), acc)
         ELSE IF c # ".." \/ (~a /\ acc = <<>>) \/ (acc # <<>> /\ Last(acc) = "..")
              THEN NormSegs(a, Tail(s), Append(acc, c))
         ELSE IF acc # <<>> THEN NormSegs(a, Tail(s), Front(acc))
         ELSE NormSegs(a, Tail(s), acc)

\* os.path.normpath: drops "" and ".", resolves "..", "." for the empty path
normpath(p) ==
    LET n == NormSegs(p.abs, p.segs, <<>>) IN
    IF n = <<>> /\ ~p.abs THEN P(FALSE, <<".">>) ELSE P(p.abs, n)

\* os.path.join of two paths: an absolute second path replaces the first
join(a, b) == IF b.abs THEN b ELSE P(a.abs, a.segs \o b.segs)

\* str.split(os.sep) of a path string
split(p) ==
    IF p.abs THEN (IF p.segs = <<>> THEN <<"", "">> ELSE <<"">> \o p.segs)
    ELSE (IF p.segs = <<>> THEN <<"">> ELSE p.segs)

\* a single component (no separator in it) as a relative path
Comp(c) == IF c = "" THEN P(FALSE, <<>>) ELSE P(FALSE, <<c>>)

RECURSIVE JoinAll(_, _)
\* os.path.join(base, *cs) for components cs
JoinAll(base, cs) ==
    IF cs = <<>> THEN base ELSE JoinAll(join(base, Comp(Head(cs))), Tail(cs))

dirname(p) == IF p.segs = <<>> THEN p ELSE P(p.abs, Front(p.segs))

basename(p) == IF p.segs = <<>> THEN "" ELSE Last(p.segs)

\* the process's working directory, against which relative paths resolve
cwd == P(TRUE, <<"home", "user">>)

abspath(p) == normpath(join(cwd, p))

RECURSIVE CommonLen(_, _)
CommonLen(s, t) ==
    IF s = <<>> \/ t = <<>> \/ Head(s) # Head(t) THEN 0
    ELSE 1 + CommonLen(Tail(s), Tail(t))

\* os.path.relpath(path, start)
relpath(path, start) ==
    LET sl == abspath(start).segs
        pl == abspath(path).segs
        c  == CommonLen(sl, pl)
        r  == [k \in 1..(Len(sl) - c) |-> ".."] \o SubSeq(pl, c + 1, Len(pl))
    IN IF r = <<>> THEN P(FALSE, <<".">>) ELSE P(FALSE, r)

\* str.removeprefix('/')
removeprefix(p) == IF p.abs THEN P(FALSE, p.segs) ELSE p

----------------------------------------------------------------------------
(* Values of the program and of its environment *)

\* UploadMode.SKIP.value and UploadMode.OVERWRITE.value (hfs_api/_constants.py)
SKIP == "skip"

OVERWRITE == "overwrite"

\* values a caller can pass as `exists`: the two modes and one that is neither
ExistsValues == {SKIP, OVERWRITE, "replace"}

\* `file_size_threshold` of _upload_file: 1 MB
file_size_threshold == 1024 * 1024

\* os.path.exists / os.path.isfile / os.path.isdir of a local path
LocalKinds == {"file", "dir", "missing"}

\* the local folder given to upload: for each directory in it (named by its
\* path below the folder) the sub-directories and the other entries, in the
\* order os.scandir reports them; d/e is an empty directory
LocalTree ==
    (<<>> :> [dirs |-> <<"a", "b", "d">>, files |-> <<>>])
    @@ (<<"a">> :> [dirs |-> <<>>, files |-> <<"file1.txt">>])
    @@ (<<"b">> :> [dirs |-> <<"c">>, files |-> <<>>])
    @@ (<<"b", "c">> :> [dirs |-> <<>>, files |-> <<"file2.txt", "file3.txt">>])
    @@ (<<"d">> :> [dirs |-> <<"e">>, files |-> <<"file4.txt", "file5.txt">>])
    @@ (<<"d", "e">> :> [dirs |-> <<>>, files |-> <<>>])

RECURSIVE Concat(_)
\* the sequences of a sequence, one after the other
Concat(ss) == IF ss = <<>> THEN <<>> ELSE Head(ss) \o Concat(Tail(ss))

RECURSIVE os_walk(_)
\* os.walk from the directory d of the tree, top down: (root, dirs, files) of
\* d, then the walk of each sub-directory in turn
os_walk(d) ==
    << [root |-> d, dirs |-> LocalTree[d].dirs, files |-> LocalTree[d].files] >>
    \o Concat([k \in DOMAIN LocalTree[d].dirs |->
                  os_walk(Append(d, LocalTree[d].dirs[k]))])

\* os.path.normpath(os.path.join(root, name)) for a (root, dirs, files) of the
\* walk of `path`
Yielded(path, root, name) == normpath(join(join(path, P(FALSE, root)), Comp(name)))

\* _local_walk_gen as if the directories were yielded whatever include_dirs is
_local_walk_gen_dirs(path, include_dirs) ==
    Concat([k \in DOMAIN os_walk(<<>>) |->
               LET t == os_walk(<<>>)[k] IN
               [n \in DOMAIN t.files |-> Yielded(path, t.root, t.files[n])]
               \o [n \in DOMAIN t.dirs |-> Yielded(path, t.root, t.dirs[n])]])

\* _local_walk_gen(path, include_dirs): for each (root, dirs, files) of the
\* walk the files, then the directories if include_dirs
_local_walk_gen(path, include_dirs) ==
    Concat([k \in DOMAIN os_walk(<<>>) |->
               LET t == os_walk(<<>>)[k] IN
               [n \in DOMAIN t.files |-> Yielded(path, t.root, t.files[n])]
               \o (IF include_dirs
                   THEN [n \in DOMAIN t.dirs |-> Yielded(path, t.root, t.dirs[n])]
                   ELSE <<>>)])

\* what the loop of _upload_folder gets from _local_walk_gen(local_path) for a
\* folder holding that tree, in walk order, relative to the folder
WalkFiles ==
    LET top == P(FALSE, <<"root">>)
        w == _local_walk_gen(top, FALSE)
    IN [k \in DOMAIN w |-> relpath(w[k], top)]

\* their sizes in bytes
WalkSizes == << 500, 2097152, 1048576, 1048575, 0 >>

Min(a, b) == IF a < b THEN a ELSE b

\* local folders given to upload
LocalRoots ==
    { P(FALSE, <<"root">>), P(FALSE, <<".">>), P(FALSE, <<"..">>),
      P(FALSE, <<"x", "root">>) }

\* a local regular file given to upload
LocalFile == P(FALSE, <<"root", "a", "file1.txt">>)

\* sizes of the local regular file given to upload
FileSizes == {500, 1048575, 1048576, 2097152}

\* remote destinations given to upload
RemotePaths == { P(TRUE, <<"dst">>), P(TRUE, <<"remote">>) }

\* HTTP status codes the server answers a PUT with
PutStatuses == {200, 401, 404, 499, 500, 600}

\* HTTP status codes the server answers a create_folder request with
CreateStatuses == {200, 401, 404, 409, 499}

\* folder names given to create_folder
FolderNames ==
    { P(TRUE, <<"a", "b", "c">>), P(FALSE, <<"a", "b">>),
      P(FALSE, <<"a", ".", "b", "..", "c">>) }

\* http.client.responses: the status codes the standard library names
http_client_responses ==
    (200..208) \cup {226} \cup ((300..308) \ {306}) \cup (400..418)
    \cup (421..426) \cup {428, 429, 431, 451} \cup (500..508) \cup {510, 511}

\* json_response["details"][0] of get_file_details, or a body json.loads rejects
Details == {"false", "null", "object", "malformed"}

\* paths that may exist on the server before the call
RemoteBases ==
    { P(TRUE, <<>>), P(TRUE, <<"dst">>), P(TRUE, <<"dst", "root">>),
      P(TRUE, <<"remote">>), P(TRUE, <<"remote", "root">>) }

RemoteDirsA == RemoteBases \cup { join(b, P(FALSE, <<"a">>)) : b \in RemoteBases }

RemoteDirsAll ==
    RemoteDirsA
    \cup { join(b, d) : b \in RemoteBases,
                        d \in { P(FALSE, <<"b">>), P(FALSE, <<"b", "c">>),
                                P(FALSE, <<"d">>) } }

RemoteFilesAll ==
    { join(b, WalkFiles[k]) : b \in RemoteBases, k \in 1..Len(WalkFiles) }

RemoteInits ==
    { {}, RemoteDirsA, RemoteDirsAll, RemoteDirsAll \cup RemoteFilesAll }

\* the answers the server can give about a path: the truth, or nothing usable
DetailsFor(path) ==
    {"null", "malformed"}
    \cup (IF normpath(path) \in remote THEN {"object"} ELSE {"false"})

----------------------------------------------------------------------------
(* Requests *)

NoPath == P(FALSE, <<>>)

\* POST /~/api/get_file_details, with the answer's details[0]
ExistsRequest(path, detail, k) ==
    [kind |-> "get_file_details", uri |-> path, name |-> "", existing |-> "",
     strategy |-> "", status |-> 200, detail |-> detail, file |-> k,
     existed |-> normpath(path) \in remote]

\* POST /~/api/create_folder, with the answer's status
CreateRequest(root, name, status, k) ==
    [kind |-> "create_folder", uri |-> root, name |-> name, existing |-> "",
     strategy |-> "", status |-> status, detail |-> "", file |-> k,
     existed |-> normpath(join(root, Comp(name))) \in remote]

\* the server path a PUT url names
UrlTarget(url) == P(TRUE, Tail(url.segs))

\* PUT <url>?existing=<existing>, with the answer's status
PutRequest(url, existing, strategy, status, k) ==
    [kind |-> "PUT", uri |-> url, name |-> "", existing |-> existing,
     strategy |-> strategy, status |-> status, detail |-> "", file |-> k,
     existed |-> UrlTarget(url) \in remote]

Success(status) == status \in 200..299

----------------------------------------------------------------------------
(* output.colorize_status_code *)

\* the exception colorize_status_code leaves with, "" if it returns
colorize_raises(status_code) ==
    IF status_code \notin 200..599 THEN "ValueError"
    ELSE IF status_code \notin http_client_responses THEN "KeyError"
    ELSE ""

\* the colour colorize_status_code picks
colorize_status_code(status_code) ==
    IF status_code \in 200..299 THEN "LIGHTGREEN_EX"
    ELSE IF status_code \in 300..399 THEN "CYAN"
    ELSE "LIGHTRED_EX"

----------------------------------------------------------------------------
(* HFS.exists, HFS._create_folder_one, HFS._upload_file *)

\* HFS.exists as if it tested `is not None`: null is absent, false is present
HFS_exists_is_not_none(detail) ==
    IF detail = "malformed" THEN [raises |-> "JSONDecodeError", value |-> FALSE]
    ELSE [raises |-> "", value |-> detail # "null"]

\* HFS.exists: [raises, value]
HFS_exists(detail) ==
    IF detail = "malformed" THEN [raises |-> "JSONDecodeError", value |-> FALSE]
    ELSE [raises |-> "", value |-> detail # "false"]

\* HFS._create_folder_one as if 404 were let through like 409
_create_folder_one_tolerant(name, root, status) ==
    [sent |-> TRUE,
     raises |-> IF status = 401 THEN "AuthorizationFailed" ELSE ""]

\* HFS._create_folder_one as if the 409 case were not commented out
_create_folder_one_conflict(name, root, status) ==
    [sent |-> TRUE,
     raises |-> IF status = 401 THEN "AuthorizationFailed"
                ELSE IF status = 404 THEN "NotExistsError"
                ELSE IF status = 409 THEN "AlreadyExistsError" ELSE ""]

\* HFS._create_folder_one as if it sent nothing for a folder that exists
_create_folder_one_cached(name, root, status) ==
    IF normpath(join(root, Comp(name))) \in remote
    THEN [sent |-> FALSE, raises |-> ""]
    ELSE [sent |-> TRUE,
          raises |-> IF status = 401 THEN "AuthorizationFailed"
                     ELSE IF status = 404 THEN "NotExistsError" ELSE ""]

\* HFS._create_folder_one: the request is always sent; 401 and 404 raise
_create_folder_one(name, root, status) ==
    [sent |-> TRUE,
     raises |-> IF status = 401 THEN "AuthorizationFailed"
                ELSE IF status = 404 THEN "NotExistsError" ELSE ""]

\* the domain part of a url
Domain == P(FALSE, <<"https://domain">>)

\* HFS._upload_file as if it kept the existing file itself under SKIP
_upload_file_skips_existing(lp, remote_root, ex, kind, file_size, status) ==
    LET url == join(join(Domain, removeprefix(remote_root)), Comp(basename(lp)))
        strategy == IF file_size < file_size_threshold THEN "memory" ELSE "stream"
        nothing == [sent |-> FALSE, url |-> NoPath, existing |-> "", strategy |-> ""]
    IN IF kind = "missing" THEN nothing @@ [raises |-> "FileNotFoundError"]
       ELSE IF kind # "file" THEN nothing @@ [raises |-> "IsADirectoryError"]
       ELSE IF ex \notin {OVERWRITE, SKIP} THEN nothing @@ [raises |-> "ValueError"]
       ELSE IF ex = SKIP /\ UrlTarget(url) \in remote THEN nothing @@ [raises |-> ""]
       ELSE [sent |-> TRUE, url |-> url, existing |-> ex, strategy |-> strategy,
             raises |-> IF status = 401 THEN "AuthorizationFailed" ELSE ""]

\* HFS._upload_file as if it returned a 401 response like any other
_upload_file_returns_401(lp, remote_root, ex, kind, file_size, status) ==
    LET url == join(join(Domain, removeprefix(remote_root)), Comp(basename(lp)))
        strategy == IF file_size < file_size_threshold THEN "memory" ELSE "stream"
        nothing == [sent |-> FALSE, url |-> NoPath, existing |-> "", strategy |-> ""]
    IN IF kind = "missing" THEN nothing @@ [raises |-> "FileNotFoundError"]
       ELSE IF kind # "file" THEN nothing @@ [raises |-> "IsADirectoryError"]
       ELSE IF ex \notin {OVERWRITE, SKIP} THEN nothing @@ [raises |-> "ValueError"]
       ELSE [sent |-> TRUE, url |-> url, existing |-> ex, strategy |-> strategy,
             raises |-> ""]

\* HFS._upload_file as if the streamed PUT were sent to the url without the
\* `existing` query
_upload_file_stream_plain(lp, remote_root, ex, kind, file_size, status) ==
    LET url == join(join(Domain, removeprefix(remote_root)), Comp(basename(lp)))
        strategy == IF file_size < file_size_threshold THEN "memory" ELSE "stream"
        nothing == [sent |-> FALSE, url |-> NoPath, existing |-> "", strategy |-> ""]
    IN IF kind = "missing" THEN nothing @@ [raises |-> "FileNotFoundError"]
       ELSE IF kind # "file" THEN nothing @@ [raises |-> "IsADirectoryError"]
       ELSE IF ex \notin {OVERWRITE, SKIP} THEN nothing @@ [raises |-> "ValueError"]
       ELSE [sent |-> TRUE, url |-> url,
             existing |-> IF strategy = "stream" THEN "" ELSE ex,
             strategy |-> strategy,
             raises |-> IF status = 401 THEN "AuthorizationFailed" ELSE ""]

\* HFS._upload_file as if a file of exactly the threshold size were still read
\* into memory
_upload_file_at_most(lp, remote_root, ex, kind, file_size, status) ==
    LET url == join(join(Domain, removeprefix(remote_root)), Comp(basename(lp)))
        strategy == IF file_size <= file_size_threshold THEN "memory" ELSE "stream"
        nothing == [sent |-> FALSE, url |-> NoPath, existing |-> "", strategy |-> ""]
    IN IF kind = "missing" THEN nothing @@ [raises |-> "FileNotFoundError"]
       ELSE IF kind # "file" THEN nothing @@ [raises |-> "IsADirectoryError"]
       ELSE IF ex \notin {OVERWRITE, SKIP} THEN nothing @@ [raises |-> "ValueError"]
       ELSE [sent |-> TRUE, url |-> url, existing |-> ex, strategy |-> strategy,
             raises |-> IF status = 401 THEN "AuthorizationFailed" ELSE ""]

\* HFS._upload_file: local checks, then one PUT; 401 raises
_upload_file(lp, remote_root, ex, kind, file_size, status) ==
    LET url == join(join(Domain, removeprefix(remote_root)), Comp(basename(lp)))
        strategy == IF file_size < file_size_threshold THEN "memory" ELSE "stream"
        nothing == [sent |-> FALSE, url |-> NoPath, existing |-> "", strategy |-> ""]
    IN IF kind = "missing" THEN nothing @@ [raises |-> "FileNotFoundError"]
       ELSE IF kind # "file" THEN nothing @@ [raises |-> "IsADirectoryError"]
       ELSE IF ex \notin {OVERWRITE, SKIP} THEN nothing @@ [raises |-> "ValueError"]
       ELSE [sent |-> TRUE, url |-> url, existing |-> ex, strategy |-> strategy,
             raises |-> IF status = 401 THEN "AuthorizationFailed" ELSE ""]

\* the remote path as if the folder's own name were not put under remote_path
remote_file_of_flat(lp, rp, lf) == normpath(join(rp, relpath(lf, lp)))

\* the remote path _upload_folder computes for a walked file
remote_file_of(lp, rp, lf) ==
    LET remote_root == join(rp, Comp(Last(split(normpath(lp))))) IN
    normpath(join(remote_root, relpath(lf, lp)))

\* what _local_walk_gen yields for the file at relative path rel
walked(lp, rel) == normpath(join(lp, rel))

----------------------------------------------------------------------------
(* The state after construction: no call running, the server in some state *)

NoCall == [folder_name |-> NoPath, creates |-> <<>>, pc |-> "none"]

\* no list or delete call was made: no arguments, no answer, nothing returned
NoArgs == [path |-> NoPath, force |-> FALSE]

NoResponse == [status_code |-> 0, list |-> <<>>]

NoReturn == [kind |-> "nothing", value |-> <<>>]

Init ==
    /\ pc = "idle" /\ op = "none" /\ err = ""
    /\ local_path = NoPath /\ remote_path = NoPath /\ exists = ""
    /\ files = <<>> /\ sizes = <<>> /\ idx = 0
    /\ local_file = NoPath /\ remote_file = NoPath
    /\ remote \in RemoteInits
    /\ log = <<>> /\ out = <<>>
    /\ folder_name = NoPath /\ components = <<>> /\ i = 0
    /\ calls = 0 /\ prev = NoCall
    /\ args = NoArgs /\ stdin = <<>> /\ response = NoResponse /\ ret = NoReturn

CreateVars == <<folder_name, components, i, calls, prev>>

CallVars == <<args, stdin, response, ret>>

\* an exception leaves the running call
Raise(e) == pc' = "raised" /\ err' = e

\* what a 2xx answer to a request changes on the server
Served(req) ==
    IF ~Success(req.status) THEN remote
    ELSE IF req.kind = "PUT" THEN remote \cup {UrlTarget(req.uri)}
    ELSE IF req.kind = "create_folder"
         THEN remote \cup {normpath(join(req.uri, Comp(req.name)))}
    ELSE remote

----------------------------------------------------------------------------
(* HFS.upload *)

\* upload(local_path, remote_path, exists=ex) on a path that does not exist
upload_missing(lp, rp, ex) ==
    /\ pc = "idle"
    /\ op' = "upload" /\ Raise("FileNotFoundError")
    /\ local_path' = lp /\ remote_path' = rp /\ exists' = ex
    /\ UNCHANGED <<files, sizes, idx, local_file, remote_file, remote, log, out>>
    /\ UNCHANGED CreateVars
    /\ UNCHANGED CallVars

\* upload on a regular file: enters _upload_file
upload_isfile(lp, rp, ex, size) ==
    /\ pc = "idle"
    /\ op' = "file" /\ pc' = "put"
    /\ local_path' = lp /\ remote_path' = rp /\ exists' = ex
    /\ local_file' = lp /\ sizes' = <<size>> /\ idx' = 1
    /\ UNCHANGED <<err, files, remote_file, remote, log, out>>
    /\ UNCHANGED CreateVars
    /\ UNCHANGED CallVars

\* upload on a folder: enters _upload_folder, which starts the walk
upload_isdir(lp, rp, ex, n) ==
    /\ pc = "idle"
    /\ op' = "folder" /\ pc' = "walk"
    /\ local_path' = lp /\ remote_path' = rp /\ exists' = ex
    /\ files' = SubSeq(WalkFiles, 1, n) /\ sizes' = SubSeq(WalkSizes, 1, n)
    /\ idx' = 1
    /\ UNCHANGED <<err, local_file, remote_file, remote, log, out>>
    /\ UNCHANGED CreateVars
    /\ UNCHANGED CallVars

upload ==
    \E rp \in RemotePaths, ex \in ExistsValues :
        \/ \E lp \in LocalRoots \cup {LocalFile} : upload_missing(lp, rp, ex)
        \/ \E size \in FileSizes : upload_isfile(LocalFile, rp, ex, size)
        \/ \E lp \in LocalRoots, n \in 0..Min(MaxFiles, Len(WalkFiles)) :
               upload_isdir(lp, rp, ex, n)

----------------------------------------------------------------------------
(* HFS._upload_folder *)

\* the turn as if an exception of the existence check or of create_folder were
\* caught, reported and the walk continued with the next file
_upload_folder_ensure_catching(detail) ==
    LET lf == walked(local_path, files[idx])
        rf == remote_file_of(local_path, remote_path, lf)
        ex == HFS_exists(detail)
    IN /\ local_file' = lf /\ remote_file' = rf
       /\ log' = Append(log, ExistsRequest(dirname(rf), detail, idx))
       /\ IF ex.raises # "" \/ ~ex.value
          THEN /\ pc' = "walk" /\ err' = err /\ idx' = idx + 1
               /\ out' = Append(out, <<"LIGHTRED_EX", 0>>)
          ELSE pc' = "put" /\ err' = err /\ UNCHANGED <<idx, out>>
       /\ UNCHANGED <<op, local_path, remote_path, exists, files, sizes, remote>>
       /\ UNCHANGED CreateVars
       /\ UNCHANGED CallVars

\* the turn as if existence answers were remembered for the run: a parent
\* already reported as existing is not asked about again
_upload_folder_ensure_cached(detail) ==
    LET lf == walked(local_path, files[idx])
        rf == remote_file_of(local_path, remote_path, lf)
        ex == HFS_exists(detail)
        known == \E k \in DOMAIN log :
                     /\ log[k].kind = "get_file_details"
                     /\ log[k].uri = dirname(rf)
                     /\ log[k].detail \in {"object", "null"}
    IN /\ local_file' = lf /\ remote_file' = rf
       /\ log' = IF known THEN log
                 ELSE Append(log, ExistsRequest(dirname(rf), detail, idx))
       /\ IF known THEN pc' = "put" /\ err' = err
          ELSE IF ex.raises # "" THEN Raise(ex.raises)
          ELSE IF ~ex.value THEN Raise("TypeError")
          ELSE pc' = "put" /\ err' = err
       /\ UNCHANGED <<op, local_path, remote_path, exists, files, sizes, idx,
                      remote, out>>
       /\ UNCHANGED CreateVars
       /\ UNCHANGED CallVars

\* one turn of the loop up to the call of _upload_file: the parent's existence
\* is asked; a False answer calls create_folder with a second positional
\* argument, which its signature (cookies is keyword-only) rejects
_upload_folder_ensure(detail) ==
    LET lf == walked(local_path, files[idx])
        rf == remote_file_of(local_path, remote_path, lf)
        ex == HFS_exists(detail)
    IN /\ local_file' = lf /\ remote_file' = rf
       /\ log' = Append(log, ExistsRequest(dirname(rf), detail, idx))
       /\ IF ex.raises # "" THEN Raise(ex.raises)
          ELSE IF ~ex.value THEN Raise("TypeError")
          ELSE pc' = "put" /\ err' = err
       /\ UNCHANGED <<op, local_path, remote_path, exists, files, sizes, idx,
                      remote, out>>
       /\ UNCHANGED CreateVars
       /\ UNCHANGED CallVars

\* the rest of the turn as if a failed upload were tried again: the walk stays
\* on the file, whose existence check and PUT are then issued once more
_upload_folder_upload_retrying(kind, status) ==
    LET o == _upload_file(local_file, dirname(remote_file), exists, kind,
                          sizes[idx], status)
        req == PutRequest(o.url, o.existing, o.strategy, status, idx)
        printed == colorize_raises(status)
    IN /\ log' = IF o.sent THEN Append(log, req) ELSE log
       /\ remote' = IF o.sent THEN Served(req) ELSE remote
       /\ IF o.raises # "" THEN Raise(o.raises) /\ UNCHANGED <<idx, out>>
          ELSE IF printed # "" THEN Raise(printed) /\ UNCHANGED <<idx, out>>
          ELSE /\ out' = Append(out, <<colorize_status_code(status), status>>)
               /\ idx' = IF Success(status) THEN idx + 1 ELSE idx
               /\ pc' = "walk" /\ err' = err
       /\ UNCHANGED <<op, local_path, remote_path, exists, files, sizes,
                      local_file, remote_file>>
       /\ UNCHANGED CreateVars
       /\ UNCHANGED CallVars

\* the rest of the turn: _upload_file, then the print of the answer
_upload_folder_upload(kind, status) ==
    LET o == _upload_file(local_file, dirname(remote_file), exists, kind,
                          sizes[idx], status)
        req == PutRequest(o.url, o.existing, o.strategy, status, idx)
        printed == colorize_raises(status)
    IN /\ log' = IF o.sent THEN Append(log, req) ELSE log
       /\ remote' = IF o.sent THEN Served(req) ELSE remote
       /\ IF o.raises # "" THEN Raise(o.raises) /\ UNCHANGED <<idx, out>>
          ELSE IF printed # "" THEN Raise(printed) /\ UNCHANGED <<idx, out>>
          ELSE /\ out' = Append(out, <<colorize_status_code(status), status>>)
               /\ idx' = idx + 1
               /\ pc' = "walk" /\ err' = err
       /\ UNCHANGED <<op, local_path, remote_path, exists, files, sizes,
                      local_file, remote_file>>
       /\ UNCHANGED CreateVars
       /\ UNCHANGED CallVars

FolderEnsure ==
    /\ op = "folder" /\ pc = "walk" /\ idx <= Len(files)
    /\ \E detail \in DetailsFor(dirname(remote_file_of(local_path, remote_path,
                                   walked(local_path, files[idx])))) :
           _upload_folder_ensure(detail)

FolderUpload ==
    /\ op = "folder" /\ pc = "put"
    /\ \E kind \in LocalKinds, status \in PutStatuses :
           _upload_folder_upload(kind, status)

\* the walk is exhausted: _upload_folder returns
FolderDone ==
    /\ op = "folder" /\ pc = "walk" /\ idx > Len(files)
    /\ pc' = "done"
    /\ UNCHANGED <<op, err, local_path, remote_path, exists, files, sizes, idx,
                   local_file, remote_file, remote, log, out>>
    /\ UNCHANGED CreateVars
    /\ UNCHANGED CallVars

----------------------------------------------------------------------------
(* HFS.upload on a regular file: _upload_file, whose response is returned *)

upload_file_put(kind, status) ==
    LET o == _upload_file(local_file, remote_path, exists, kind, sizes[idx], status)
        req == PutRequest(o.url, o.existing, o.strategy, status, idx)
    IN /\ log' = IF o.sent THEN Append(log, req) ELSE log
       /\ remote' = IF o.sent THEN Served(req) ELSE remote
       /\ IF o.raises # "" THEN Raise(o.raises) ELSE pc' = "done" /\ err' = err
       /\ UNCHANGED <<op, local_path, remote_path, exists, files, sizes, idx,
                      local_file, remote_file, out>>
       /\ UNCHANGED CreateVars
       /\ UNCHANGED CallVars

FileUpload ==
    /\ op = "file" /\ pc = "put"
    /\ \E kind \in LocalKinds, status \in PutStatuses : upload_file_put(kind, status)

----------------------------------------------------------------------------
(* HFS.create_folder *)

\* the call: the name is normalized and split into its components
create_folder_call(fn) ==
    /\ pc = "idle" /\ calls < MaxCalls
    /\ op' = "create_folder" /\ pc' = "mk"
    /\ folder_name' = fn
    /\ components' = split(normpath(fn))
    /\ i' = 0 /\ calls' = calls + 1
    /\ log' = <<>> /\ out' = <<>>
    /\ UNCHANGED <<err, local_path, remote_path, exists, files, sizes, idx,
                   local_file, remote_file, remote, prev>>
    /\ UNCHANGED CallVars

\* one turn of the loop: _create_folder_one for components[i] under the join
\* of the components before it, then the print of the answer
create_folder_turn(status) ==
    LET name == components[i + 1]
        root == JoinAll(P(TRUE, <<>>), SubSeq(components, 1, i))
        o == _create_folder_one(name, root, status)
        req == CreateRequest(root, name, status, i)
        printed == colorize_raises(status)
    IN /\ log' = IF o.sent THEN Append(log, req) ELSE log
       /\ remote' = IF o.sent THEN Served(req) ELSE remote
       /\ IF o.raises # "" THEN Raise(o.raises) /\ UNCHANGED <<i, out>>
          ELSE IF o.sent /\ printed # "" THEN Raise(printed) /\ UNCHANGED <<i, out>>
          ELSE /\ out' = IF o.sent
                         THEN Append(out, <<colorize_status_code(status), status>>)
                         ELSE out
               /\ i' = i + 1
               /\ pc' = pc /\ err' = err
       /\ UNCHANGED <<op, local_path, remote_path, exists, files, sizes, idx,
                      local_file, remote_file, folder_name, components, calls,
                      prev>>
       /\ UNCHANGED CallVars

CreateFolder == \E fn \in FolderNames : create_folder_call(fn)

CreateFolderTurn ==
    /\ op = "create_folder" /\ pc = "mk" /\ i < Len(components)
    /\ \E status \in CreateStatuses : create_folder_turn(status)

\* the components are exhausted: create_folder returns
CreateFolderDone ==
    /\ op = "create_folder" /\ pc = "mk" /\ i = Len(components)
    /\ pc' = "done"
    /\ UNCHANGED <<op, err, local_path, remote_path, exists, files, sizes, idx,
                   local_file, remote_file, remote, log, out>>
    /\ UNCHANGED CreateVars
    /\ UNCHANGED CallVars

\* the (root, name) payloads of the create_folder requests of a log
Payloads(l) == [k \in 1..Len(l) |-> <<l[k].uri, l[k].name>>]

\* the caller has the call's result or exception and may call again
CreateFolderEnded ==
    /\ op = "create_folder" /\ pc \in {"done", "raised"}
    /\ prev' = [folder_name |-> folder_name, creates |-> Payloads(log), pc |-> pc]
    /\ pc' = "idle" /\ err' = "" /\ op' = "none"
    /\ UNCHANGED <<local_path, remote_path, exists, files, sizes, idx,
                   local_file, remote_file, remote, log, out, folder_name,
                   components, i, calls>>
    /\ UNCHANGED CallVars

NextCreate ==
    CreateFolder \/ CreateFolderTurn \/ CreateFolderDone \/ CreateFolderEnded

\* sessions of successive create_folder calls
SpecCreate == Init /\ [][NextCreate]_vars

Next == upload \/ FolderEnsure \/ FolderUpload \/ FolderDone \/ FileUpload

Spec == Init /\ [][Next]_vars

----------------------------------------------------------------------------
(* HFS.list *)

\* the length of the listings considered
MaxRows == 2

\* names as their characters, so that endswith('/') looks at the last one
\* (a.txt, docs/ and the empty name, shortened)
FileName == <<"a">>

FolderName == <<"d", "/">>

EmptyName == <<>>

\* a row of json_response["list"]: the keys it has, those of them that are
\* null, and the values of n and m where present
Row(keys, nulls, n, m) ==
    [keys |-> keys, nulls |-> nulls, n |-> n, s |-> 7, m |-> m, c |-> "note"]

ListRows ==
    { Row({"n", "s", "m", "c"}, {}, FileName, "2024-05-01T10:00:00"),
      Row({"n", "m"}, {}, FolderName, "2024-05-01T10:00:00"),
      Row({"n", "m"}, {}, EmptyName, "2024-05-01T10:00:00"),
      Row({"s", "m"}, {}, EmptyName, "2024-05-01T10:00:00"),
      Row({"n", "m"}, {"n"}, EmptyName, "2024-05-01T10:00:00"),
      Row({"n", "s"}, {}, FileName, ""),
      Row({"n", "m"}, {}, FileName, "yesterday") }

Listings == UNION {[1..n -> ListRows] : n \in 0..MaxRows}

ListStatuses == {200, 403}

ListPaths == {P(TRUE, <<>>), P(TRUE, <<"dst">>)}

\* datetime.fromisoformat: the fields of an ISO date, ValueError otherwise
fromisoformat(m) ==
    IF m = "2024-05-01T10:00:00"
    THEN [raises |-> "", value |-> <<2024, 5, 1, 10, 0, 0>>]
    ELSE [raises |-> "ValueError", value |-> <<>>]

\* str.endswith('/')
endswith_sep(name) == name # <<>> /\ Last(name) = "/"

\* files[i].get('n', None) is not None
has_name(row) == "n" \in row.keys /\ "n" \notin row.nulls

\* the HFSPath built from a row that has the keys n and m
HFSPath(row, path) ==
    [name |-> row.n,
     size |-> IF "s" \in row.keys THEN row.s ELSE 0,
     modified_at |-> fromisoformat(row.m).value,
     path |-> path,
     is_directory |-> endswith_sep(row.n),
     comment |-> IF "c" \in row.keys THEN row.c ELSE ""]

\* the loop over the rows from row k on: a row without a name is passed over;
\* files[i]['m'] of a row without m raises KeyError, and fromisoformat may
\* raise, either of which leaves list
RECURSIVE list_loop(_, _, _, _)
list_loop(rows, path, k, files_obj) ==
    IF k > Len(rows) THEN [raises |-> "", value |-> files_obj]
    ELSE IF ~has_name(rows[k]) THEN list_loop(rows, path, k + 1, files_obj)
    ELSE IF "m" \notin rows[k].keys THEN [raises |-> "KeyError", value |-> <<>>]
    ELSE IF fromisoformat(rows[k].m).raises # ""
         THEN [raises |-> fromisoformat(rows[k].m).raises, value |-> <<>>]
    ELSE list_loop(rows, path, k + 1, Append(files_obj, HFSPath(rows[k], path)))

\* HFS.list on the answer of the server: any status but 200 raises APIError
HFS_list(path, resp) ==
    IF resp.status_code # 200 THEN [raises |-> "APIError", value |-> <<>>]
    ELSE list_loop(resp.list, path, 1, <<>>)

\* GET /~/api/get_file_list?uri=<path>, with the answer's status
ListRequest(path, status) ==
    [kind |-> "get_file_list", uri |-> path, name |-> "", existing |-> "",
     strategy |-> "", status |-> status, detail |-> "", file |-> 0,
     existed |-> normpath(path) \in remote]

\* a call of list(path), answered with a status and a listing
list_call(path, status_code, rows) ==
    LET resp == [status_code |-> status_code, list |-> rows]
        o == HFS_list(path, resp)
    IN /\ pc = "idle"
       /\ op' = "list"
       /\ args' = [path |-> path, force |-> FALSE]
       /\ response' = resp
       /\ log' = Append(log, ListRequest(path, status_code))
       /\ IF o.raises # "" THEN Raise(o.raises) /\ ret' = ret
          ELSE pc' = "done" /\ err' = err /\ ret' = [kind |-> "list", value |-> o.value]
       /\ UNCHANGED <<local_path, remote_path, exists, files, sizes, idx,
                      local_file, remote_file, remote, out, stdin>>
       /\ UNCHANGED CreateVars

List ==
    \E path \in ListPaths, status_code \in ListStatuses, rows \in Listings :
        list_call(path, status_code, rows)

\* the caller has the listing or the exception, and may call again
ListEnded ==
    /\ op = "list" /\ pc \in {"done", "raised"}
    /\ pc' = "idle" /\ err' = "" /\ op' = "none" /\ log' = <<>>
    /\ args' = NoArgs /\ response' = NoResponse /\ ret' = NoReturn
    /\ UNCHANGED <<local_path, remote_path, exists, files, sizes, idx,
                   local_file, remote_file, remote, out, stdin>>
    /\ UNCHANGED CreateVars

NextList == List \/ ListEnded

\* sessions of list calls
SpecList == Init /\ [][NextList]_vars

----------------------------------------------------------------------------
(* HFS.delete *)

DeletePaths == {P(TRUE, <<>>), P(TRUE, <<"dst">>)}

DeleteStatuses == {200, 401, 404, 500}

\* the lines a user may type at an input()
Lines == {"y", "Y", "yes", "Yes", "n", ""}

\* str.lower on those lines
lower(line) ==
    IF line = "Y" THEN "y" ELSE IF line = "Yes" THEN "yes" ELSE line

\* d is t or an ancestor of t
IsPrefix(d, t) ==
    /\ d.abs = t.abs /\ Len(d.segs) <= Len(t.segs)
    /\ SubSeq(t.segs, 1, Len(d.segs)) = d.segs

\* POST /~/api/delete, with the answer's status
DeleteRequest(path, status) ==
    [kind |-> "delete", uri |-> path, name |-> "", existing |-> "",
     strategy |-> "", status |-> status, detail |-> "", file |-> 0,
     existed |-> normpath(path) \in remote]

\* whether delete asks before it posts: only for "/" without force
delete_asks(path, force) == ~force /\ path = P(TRUE, <<>>)

\* whether the line read by the second input() lets delete go on
delete_goes_on(line) == lower(line) \in {"y", "yes"}

\* the exception delete leaves with on a status, "" if it returns the response
delete_raises(status) ==
    IF status = 401 THEN "AuthorizationFailed"
    ELSE IF status = 500 THEN "NotExistsError" ELSE ""

DeleteFrame ==
    <<local_path, remote_path, exists, files, sizes, idx, local_file,
      remote_file, out, response>>

\* the call delete(path, force=force)
delete_call(path, force) ==
    /\ pc = "idle"
    /\ op' = "delete" /\ args' = [path |-> path, force |-> force]
    /\ pc' = IF delete_asks(path, force) THEN "prompt" ELSE "post"
    /\ UNCHANGED <<err, remote, log, stdin, ret>>
    /\ UNCHANGED DeleteFrame
    /\ UNCHANGED CreateVars

\* input("are you sure ...? (y/[n])"): the line read is not kept
delete_prompt(line) ==
    /\ stdin' = Append(stdin, line)
    /\ pc' = "answer"
    /\ UNCHANGED <<op, err, args, remote, log, ret>>
    /\ UNCHANGED DeleteFrame
    /\ UNCHANGED CreateVars

\* the second input(): unless its line is y or yes in any case, delete
\* returns None
delete_answer(line) ==
    /\ stdin' = Append(stdin, line)
    /\ IF delete_goes_on(line) THEN pc' = "post" /\ ret' = ret
       ELSE pc' = "done" /\ ret' = [kind |-> "None", value |-> <<>>]
    /\ UNCHANGED <<op, err, args, remote, log>>
    /\ UNCHANGED DeleteFrame
    /\ UNCHANGED CreateVars

\* the request: 401 and 500 raise, any other answer is returned
delete_post(status) ==
    /\ log' = Append(log, DeleteRequest(args.path, status))
    /\ remote' = IF Success(status)
                 THEN {t \in remote : ~IsPrefix(args.path, t)}
                 ELSE remote
    /\ IF delete_raises(status) # ""
       THEN Raise(delete_raises(status)) /\ ret' = ret
       ELSE /\ pc' = "done" /\ err' = err
            /\ ret' = [kind |-> "response", value |-> <<status>>]
    /\ UNCHANGED <<op, args, stdin>>
    /\ UNCHANGED DeleteFrame
    /\ UNCHANGED CreateVars

Delete == \E path \in DeletePaths, force \in BOOLEAN : delete_call(path, force)

DeletePrompt ==
    /\ op = "delete" /\ pc = "prompt"
    /\ \E line \in Lines : delete_prompt(line)

DeleteAnswer ==
    /\ op = "delete" /\ pc = "answer"
    /\ \E line \in Lines : delete_answer(line)

DeletePost ==
    /\ op = "delete" /\ pc = "post"
    /\ \E status \in DeleteStatuses : delete_post(status)

NextDelete == Delete \/ DeletePrompt \/ DeleteAnswer \/ DeletePost

\* one call of delete
SpecDelete == Init /\ [][NextDelete]_vars

----------------------------------------------------------------------------
(* main.mainloop: the upload command of the shell *)

\* the length raw_input is padded to
N == 10

\* command lines typed at the prompt, as shlex.split gives them
ShellLines ==
    { <<"upload", "root">> }
    \cup { <<"upload", lp, "/dst">> : lp \in {"root", "root/a/file1.txt"} }
    \cup { <<"upload", lp, "/dst", third>> :
              lp \in {"root", "root/a/file1.txt"},
              third \in {"skip", "overwrite", "replace"} }

\* the path a token of those lines names
PathOf(token) ==
    IF token = "root" THEN P(FALSE, <<"root">>)
    ELSE IF token = "root/a/file1.txt" THEN P(FALSE, <<"root", "a", "file1.txt">>)
    ELSE IF token = "/dst" THEN P(TRUE, <<"dst">>)
    ELSE NoPath

\* raw_input.extend([''] * (N - len(raw_input)))
pad(raw_input) == raw_input \o [k \in 1..(N - Len(raw_input)) |-> ""]

\* the upload case of mainloop on the padded raw_input: whether hfs.upload is
\* called, with which `exists`, and what is printed otherwise
mainloop_upload(raw_input) ==
    LET no(message) == [calls |-> FALSE, exists |-> "", printed |-> message]
        call(mode) == [calls |-> TRUE, exists |-> mode, printed |-> ""]
    IN IF "" \in {raw_input[2], raw_input[3]} THEN no("[E] Not enough arguments")
       ELSE IF Len(raw_input) = 4
            THEN IF raw_input[4] \notin {"skip", "overwrite"}
                 THEN no("[E] Invalid 'exists' value")
                 ELSE call(IF raw_input[4] = "skip" THEN SKIP ELSE OVERWRITE)
       ELSE call(SKIP)

\* input() at the prompt and shlex.split
ShellRead ==
    /\ pc = "idle" /\ op = "none" /\ stdin = <<>>
    /\ \E line \in ShellLines : stdin' = <<line>>
    /\ UNCHANGED <<pc, op, err, local_path, remote_path, exists, files, sizes,
                   idx, local_file, remote_file, remote, log, out, args,
                   response, ret>>
    /\ UNCHANGED CreateVars

\* the upload case: hfs.upload with the paths of the line and the `exists`
\* worked out, or a message and back to the prompt
ShellUpload ==
    /\ pc = "idle" /\ op = "none" /\ stdin # <<>> /\ stdin[1][1] = "upload"
    /\ LET raw_input == pad(stdin[1])
           o == mainloop_upload(raw_input)
           lp == PathOf(raw_input[2])
           rp == PathOf(raw_input[3])
       IN IF o.calls
          THEN \/ upload_missing(lp, rp, o.exists)
               \/ /\ lp = LocalFile
                  /\ \E size \in FileSizes : upload_isfile(lp, rp, o.exists, size)
               \/ /\ lp \in LocalRoots
                  /\ \E n \in 0..Min(MaxFiles, Len(WalkFiles)) :
                         upload_isdir(lp, rp, o.exists, n)
          ELSE /\ op' = "shell" /\ pc' = "done"
               /\ ret' = [kind |-> "printed", value |-> <<o.printed>>]
               /\ UNCHANGED <<err, local_path, remote_path, exists, files, sizes,
                              idx, local_file, remote_file, remote, log, out,
                              args, stdin, response>>
               /\ UNCHANGED CreateVars

NextShell ==
    ShellRead \/ ShellUpload \/ FolderEnsure \/ FolderUpload \/ FolderDone
    \/ FileUpload

\* one upload command typed at the prompt
SpecShell == Init /\ [][NextShell]_vars

----------------------------------------------------------------------------
(* Properties *)

Puts == {k \in DOMAIN log : log[k].kind = "PUT"}

Asks == {k \in DOMAIN log : log[k].kind = "get_file_details"}

Creations == {k \in DOMAIN log : log[k].kind = "create_folder"}

Uploading == op \in {"file", "folder"}

Ended == pc \in {"done", "raised"}

\* the directories above a remote path, below "/"
AncestorDirs(t) == {P(TRUE, SubSeq(t.segs, 1, n)) : n \in 1..(Len(t.segs) - 1)}

\* the folder a create_folder request names
Created(req) == normpath(join(req.uri, Comp(req.name)))

\* before request k the server said that d exists, or created it or a folder
\* under it
ConfirmedBefore(d, k) ==
    \E j \in 1..(k - 1) :
        \/ /\ log[j].kind = "get_file_details" /\ log[j].detail = "object"
           /\ IsPrefix(d, normpath(log[j].uri))
        \/ /\ log[j].kind = "create_folder" /\ Success(log[j].status)
           /\ IsPrefix(d, Created(log[j]))

\* errors of the environment of one file: an unreadable existence answer, a
\* local file that is gone or is a directory
PerFileErrors == {"JSONDecodeError", "FileNotFoundError", "IsADirectoryError"}

\* C1 (as claimed): in a folder sync every PUT is issued only after every
\* ancestor directory of its target was confirmed as existing or was created.
C1_AncestorsConfirmed ==
    op = "folder" =>
        \A k \in Puts : \A d \in AncestorDirs(UrlTarget(log[k].uri)) :
            ConfirmedBefore(d, k)

\* C1 (amended): in a folder sync every PUT directly follows the existence
\* check of its target's parent directory, answered with an entry or with null
\* (never with false); an existence check answered false ends the run.
C1_ParentNotAbsent ==
    op = "folder" =>
        /\ \A k \in Puts :
               /\ k > 1
               /\ log[k - 1].kind = "get_file_details"
               /\ log[k - 1].file = log[k].file
               /\ normpath(log[k - 1].uri) = dirname(UrlTarget(log[k].uri))
               /\ log[k - 1].detail \in {"object", "null"}
        /\ \A k \in Asks :
               log[k].detail = "false" => k = Len(log) /\ pc = "raised"

\* a PUT was issued after a null answer about a parent that does not exist
C1_UnknownParentUploaded ==
    /\ op = "folder"
    /\ \E k \in Puts :
           k > 1 /\ log[k - 1].detail = "null" /\ ~log[k - 1].existed

\* C2 (as claimed): under SKIP no PUT is issued for a target that exists.
C2_NoPutForExisting ==
    (Uploading /\ exists = SKIP) => \A k \in Puts : ~log[k].existed

\* C2 (amended): under SKIP the client skips nothing itself: every file the
\* walk has passed (and the single file of a finished upload) had its PUT,
\* whether or not the target existed, and every PUT carries existing=skip.
C2_SkipLeftToRemote ==
    (Uploading /\ exists = SKIP) =>
        /\ \A k \in Puts : log[k].existing = SKIP
        /\ op = "folder" => \A f \in 1..(idx - 1) : \E k \in Puts : log[k].file = f
        /\ (op = "file" /\ pc = "done") => (Len(log) = 1 /\ Puts = {1})

\* under SKIP a PUT was issued for a target that existed
C2_ExistingTargetPut ==
    /\ op = "folder" /\ exists = SKIP /\ idx > 1
    /\ \E k \in Puts : log[k].existed /\ log[k].existing = SKIP

\* the server held nothing before the run: all it holds was PUT by the run
NothingRemoteBefore == remote \subseteq {UrlTarget(log[k].uri) : k \in Puts}

\* the server's existence answers are all definite
DefiniteAnswers == \A k \in Asks : log[k].detail \in {"object", "false"}

\* C3: a finished sync of N files to an empty server, with no 401 (and with
\* definite existence answers and an undisturbed local tree), has issued one
\* creation request per distinct ancestor directory of its targets and N PUTs.
C3_CreationsAndUploads ==
    ( /\ op = "folder" /\ Ended /\ exists \in {SKIP, OVERWRITE}
      /\ NothingRemoteBefore /\ DefiniteAnswers
      /\ \A k \in DOMAIN log : log[k].status \in 200..299
      /\ err \notin PerFileErrors )
    =>
    LET targets == {remote_file_of(local_path, remote_path,
                                   walked(local_path, files[f])) :
                        f \in 1..Len(files)}
        wanted == UNION {AncestorDirs(t) : t \in targets}
    IN /\ {Created(log[k]) : k \in Creations} = wanted
       /\ Cardinality(Creations) = Cardinality(wanted)
       /\ Cardinality(Puts) = Len(files)

\* C4: in a folder sync a creation or upload request answered 401 is the last
\* request of the run, which has ended with AuthorizationFailed; the files
\* before it have their printed outcome and no later file has any.
C4_AuthorizationStops ==
    op = "folder" =>
        \A k \in Puts \cup Creations :
            log[k].status = 401 =>
                /\ k = Len(log)
                /\ pc = "raised" /\ err = "AuthorizationFailed"
                /\ idx = log[k].file /\ Len(out) = idx - 1

\* the second of three files was answered 401
C4_SecondOfThreeDenied ==
    /\ op = "folder" /\ Len(files) = 3 /\ pc = "raised"
    /\ \E k \in Puts : log[k].status = 401 /\ log[k].file = 2
    /\ Len(out) = 1

\* a create_folder call that follows a finished call on the same name
Repeat ==
    /\ op = "create_folder" /\ calls >= 2
    /\ prev.folder_name = folder_name /\ prev.pc = "done"

\* C5 (as claimed): the second create_folder call on the same path issues no
\* creation request.
C5_SecondCallSilent == Repeat => log = <<>>

\* C5 (amended): every create_folder call issues its creation requests one
\* per component, in order; a finished second call on the same path has
\* repeated the requests of the first, one for each component.
C5_SecondCallRepeats ==
    op = "create_folder" =>
        /\ Len(log) <= Len(components)
        /\ \A k \in DOMAIN log :
               log[k].kind = "create_folder" /\ log[k].name = components[k]
        /\ (Repeat /\ pc = "done") =>
               (Payloads(log) = prev.creates /\ Len(log) = Len(components))

\* "/a/b/c" was created twice, the second call sending its four requests
C5_TwiceABC ==
    /\ Repeat /\ pc = "done"
    /\ folder_name = P(TRUE, <<"a", "b", "c">>) /\ Len(log) = 4
    /\ \A k \in DOMAIN log : log[k].existed

\* the remote path a PUT of the running upload should name
ExpectedTarget(req) ==
    IF op = "folder"
    THEN remote_file_of(local_path, remote_path,
                        walked(local_path, files[req.file]))
    ELSE P(TRUE, remote_path.segs \o <<basename(local_path)>>)

\* C6: every PUT of an upload carries `existing` equal to the value passed to
\* the call, and names the domain followed by the file's remote path, for the
\* in-memory and for the streamed transfer alike.
C6_DirectiveIsPolicy ==
    Uploading =>
        \A k \in Puts :
            /\ log[k].existing = exists
            /\ log[k].strategy \in {"memory", "stream"}
            /\ log[k].uri = P(FALSE, Domain.segs \o ExpectedTarget(log[k]).segs)

\* one run sent a file in memory and another one streamed
C6_BothStrategies ==
    /\ op = "folder"
    /\ \E k1, k2 \in Puts :
           log[k1].strategy = "memory" /\ log[k2].strategy = "stream"

\* C7: under OVERWRITE a sync that has ended (without an error of the file's
\* environment) has issued a PUT for every file it visited.
C7_EveryVisitedFilePut ==
    (op = "folder" /\ exists = OVERWRITE /\ Ended /\ err \notin PerFileErrors) =>
        \A f \in 1..Len(files) :
            (\E k \in DOMAIN log : log[k].file = f) =>
                (\E k \in Puts : log[k].file = f)

\* C8: in a folder sync a PUT answered with a status that is neither 2xx nor
\* 401 is printed with its status, and the run does not end on it.
C8_FailureReportedAndPassed ==
    op = "folder" =>
        \A k \in Puts :
            (~Success(log[k].status) /\ log[k].status # 401) =>
                /\ Len(out) >= log[k].file
                /\ out[log[k].file][2] = log[k].status
                /\ k = Len(log) => pc # "raised"

\* C9 (as claimed): a folder sync never ends on a per-file error while files
\* of the walk remain.
C9_ErrorConfined ==
    ~(op = "folder" /\ pc = "raised" /\ err \in PerFileErrors /\ idx < Len(files))

\* C9 (amended): a per-file error ends the folder sync: an unreadable
\* existence answer is the last request of the run, and a run ended by a
\* per-file error has printed outcomes only for the files before the failing
\* one and has issued no request for a later file.
C9_ErrorPropagates ==
    op = "folder" =>
        /\ \A k \in Asks :
               log[k].detail = "malformed" =>
                   (k = Len(log) /\ pc = "raised" /\ err = "JSONDecodeError")
        /\ (pc = "raised" /\ err \in PerFileErrors) =>
               (Len(out) = idx - 1 /\ \A k \in DOMAIN log : log[k].file <= idx)

\* the second of three files failed on its existence check
C9_SecondOfThreeFailed ==
    /\ op = "folder" /\ Len(files) = 3 /\ idx = 2
    /\ pc = "raised" /\ err = "JSONDecodeError" /\ Len(out) = 1

\* the sync of `root` (a/file1.txt, b/c/file2.txt) to /dst
Scenario ==
    /\ op = "folder"
    /\ local_path = P(FALSE, <<"root">>) /\ remote_path = P(TRUE, <<"dst">>)
    /\ files = << P(FALSE, <<"a", "file1.txt">>),
                  P(FALSE, <<"b", "c", "file2.txt">>) >>

\* C10 (as claimed): the targets are /dst/a/file1.txt and /dst/b/c/file2.txt
\* and the directories created are among /dst/a, /dst/b, /dst/b/c.
C10_NoSegmentInserted ==
    Scenario =>
        /\ \A k \in Puts :
               UrlTarget(log[k].uri) \in
                   { P(TRUE, <<"dst", "a", "file1.txt">>),
                     P(TRUE, <<"dst", "b", "c", "file2.txt">>) }
        /\ \A k \in Creations :
               Created(log[k]) \in
                   { P(TRUE, <<"dst", "a">>), P(TRUE, <<"dst", "b">>),
                     P(TRUE, <<"dst", "b", "c">>) }

\* C10 (amended): the target is the remote root, then the name of the local
\* folder, then the file's path relative to it: /dst/root/a/file1.txt and
\* /dst/root/b/c/file2.txt, whose parents /dst/root/a and /dst/root/b/c are
\* the directories asked about.
C10_FolderNameInserted ==
    /\ Scenario =>
           /\ \A k \in Puts :
                  UrlTarget(log[k].uri) =
                      IF log[k].file = 1
                      THEN P(TRUE, <<"dst", "root", "a", "file1.txt">>)
                      ELSE P(TRUE, <<"dst", "root", "b", "c", "file2.txt">>)
           /\ \A k \in Asks :
                  log[k].uri =
                      IF log[k].file = 1
                      THEN P(TRUE, <<"dst", "root", "a">>)
                      ELSE P(TRUE, <<"dst", "root", "b", "c">>)
    /\ (op = "folder" /\ Last(local_path.segs) \notin {".", ".."}) =>
           \A k \in Puts :
               UrlTarget(log[k].uri).segs =
                   remote_path.segs \o <<Last(local_path.segs)>>
                   \o files[log[k].file].segs

\* the scenario ran to its end with both files PUT
C10_ScenarioDone == Scenario /\ pc = "done" /\ Cardinality(Puts) = 2

\* the remote paths a folder sync has computed or named in a request
ComputedPaths ==
    {normpath(log[k].uri) : k \in Asks} \cup {UrlTarget(log[k].uri) : k \in Puts}
    \cup (IF remote_file = NoPath THEN {} ELSE {remote_file})

\* C11 (as claimed): whatever the local root of a folder sync (`.` and `..`
\* included), every remote path computed under the remote root /remote starts
\* with /remote and has no `..` segment.
C11_UnderRemoteRoot ==
    (op = "folder" /\ remote_path = P(TRUE, <<"remote">>)) =>
        \A t \in ComputedPaths :
            /\ IsPrefix(P(TRUE, <<"remote">>), t)
            /\ \A n \in DOMAIN t.segs : t.segs[n] # ".."

\* C12 (as claimed): a local precondition failure of an upload (local path
\* missing, a directory where a file is required, a policy value that is
\* neither skip nor overwrite) is raised before any remote request of the file
\* concerned, in a single-file upload and in a folder sync alike.
C12_PreconditionsFirst ==
    ( /\ op \in {"upload", "file", "folder"} /\ pc = "raised"
      /\ \/ err \in {"FileNotFoundError", "IsADirectoryError"}
         \/ err = "ValueError" /\ exists \notin {SKIP, OVERWRITE} )
    => \A k \in DOMAIN log : log[k].file # idx

\* C13: in a folder sync the requests are ordered per file and across files:
\* the requests of a file are issued in the order of the walk, never before
\* the file's turn; a file's PUT is the last of its requests, after the
\* existence check of its parent and any creation; and a request of the next
\* file is issued only after the PUT of the file before it was answered.
C13_OrderedPerFile ==
    op = "folder" =>
        /\ \A k \in DOMAIN log : log[k].file <= idx
        /\ \A j, k \in DOMAIN log :
               j < k =>
                   /\ log[j].file <= log[k].file
                   /\ log[j].file = log[k].file => log[j].kind # "PUT"
        /\ \A k \in DOMAIN log :
               log[k].file > 1 =>
                   \E j \in 1..(k - 1) :
                       log[j].kind = "PUT" /\ log[j].file = log[k].file - 1

\* a walk of three files ended with an existence check and a PUT for each
C13_ThreeFilesInTurn ==
    /\ op = "folder" /\ pc = "done" /\ Len(files) = 3
    /\ Len(log) = 6 /\ Cardinality(Puts) = 3 /\ Cardinality(Asks) = 3

\* the existence checks issued for the file at position f of the walk
AsksOf(f) == {k \in Asks : log[k].file = f}

\* C14 (as claimed): in a folder sync no remote directory path is asked about
\* twice (no directory is created in between, so the exception does not apply).
C14_OneCheckPerDirectory ==
    (op = "folder" /\ Creations = {}) =>
        \A j, k \in Asks : j # k => log[j].uri # log[k].uri

\* C14 (amended): in a folder sync one existence check is issued per file, on
\* the directory of its target, whatever was asked before: every file the walk
\* has passed, and the file whose PUT is next, had exactly one check, and no
\* file had more than one.
C14_OneCheckPerFile ==
    op = "folder" =>
        \A f \in 1..Len(files) :
            /\ Cardinality(AsksOf(f)) <= 1
            /\ (f < idx \/ (f = idx /\ pc = "put")) => Cardinality(AsksOf(f)) = 1
            /\ \A k \in AsksOf(f) :
                   log[k].uri =
                       dirname(remote_file_of(local_path, remote_path,
                                              walked(local_path, files[f])))

\* two files of one directory were each preceded by a check of that directory
C14_SharedParentAskedTwice ==
    /\ op = "folder" /\ pc = "done"
    /\ \E j, k \in Asks :
           /\ j < k /\ log[j].uri = log[k].uri
           /\ dirname(files[log[j].file]) = dirname(files[log[k].file])
           /\ \E n \in Puts : j < n /\ n < k

\* C15 (as claimed): when a directory path is ensured, no creation request is
\* issued for a segment that exists on the server.
C15_NoCreationForExisting ==
    op = "create_folder" =>
        \A k \in Creations : log[k].name # "" => ~log[k].existed

\* C15 (amended): create_folder asks the server nothing and posts a creation
\* request for every component in turn, whether the folder named exists or
\* not: the log of a call holds no existence check, and each turn the loop has
\* passed left exactly one creation request.
C15_CreationForEverySegment ==
    op = "create_folder" =>
        /\ Asks = {}
        /\ \A n \in 1..i :
               Cardinality({k \in Creations : log[k].file = n - 1}) = 1

\* a call ended after a creation request for a folder that existed, followed
\* by the request for the next component
C15_ExistingSegmentRequested ==
    /\ op = "create_folder" /\ pc = "done"
    /\ \E k \in Creations :
           log[k].name # "" /\ log[k].existed /\ k < Len(log)

\* C16: the strategy of an upload follows the file's size against 1 MiB
\* (1048576 bytes): a file of fewer bytes is sent as one in-memory body, a file
\* of exactly that size or more is streamed; and a file has one PUT at most,
\* exactly one once its upload was answered without an exception.
C16_StrategyBySize ==
    Uploading =>
        /\ \A k \in Puts :
               /\ sizes[log[k].file] < 1048576 => log[k].strategy = "memory"
               /\ sizes[log[k].file] >= 1048576 => log[k].strategy = "stream"
        /\ \A f \in DOMAIN sizes :
               /\ Cardinality({k \in Puts : log[k].file = f}) <= 1
               /\ (f < idx \/ (op = "file" /\ pc = "done")) =>
                      Cardinality({k \in Puts : log[k].file = f}) = 1

\* a walk sent its file of 1048576 bytes streamed and its file of 500 bytes in
\* memory
C16_AtThresholdStreamed ==
    /\ op = "folder" /\ pc = "done"
    /\ \E k \in Puts :
           sizes[log[k].file] = 1048576 /\ log[k].strategy = "stream"
    /\ \E k \in Puts :
           sizes[log[k].file] = 500 /\ log[k].strategy = "memory"

\* every date a listing gives is one fromisoformat accepts
DatesWellFormed ==
    \A k \in DOMAIN response.list :
        "m" \in response.list[k].keys => fromisoformat(response.list[k].m).raises = ""

\* the rows of the answer that have a name and the modification date an entry
\* needs
CompleteRows ==
    SelectSeq(response.list, LAMBDA row : has_name(row) /\ "m" \in row.keys)

\* C17 (as claimed): a listing answered with 200 is parsed without an error,
\* whatever its rows lack: the result has, in listing order, one entry for
\* each row that has a name and its required date, is_directory being set
\* exactly for the names ending in `/`; a row lacking a required field is left
\* out.
C17_RowsParsedOrSkipped ==
    (op = "list" /\ response.status_code = 200 /\ DatesWellFormed) =>
        /\ pc = "done" /\ ret.kind = "list"
        /\ Len(ret.value) = Len(CompleteRows)
        /\ \A k \in DOMAIN ret.value :
               /\ ret.value[k].name = CompleteRows[k].n
               /\ ret.value[k].is_directory
                      <=> (CompleteRows[k].n # <<>>
                           /\ Last(CompleteRows[k].n) = "/")

\* a delete of "/" without force
RootDelete == op = "delete" /\ delete_asks(args.path, args.force)

\* the user's answer to the question delete asks is y or yes
Confirmed == stdin # <<>> /\ lower(stdin[1]) \in {"y", "yes"}

\* C18 (as claimed): a delete of "/" without force posts no delete request
\* unless the user answered the question with y or yes; after any other
\* answer the call returns without a request.
C18_NoDeleteUnlessConfirmed ==
    RootDelete =>
        /\ log # <<>> => Confirmed
        /\ (Ended /\ ~Confirmed) => (log = <<>> /\ ret.kind = "None")

\* the non-empty segments of a path, from the root
Segments(path) == SelectSeq(normpath(path).segs, LAMBDA seg : seg # "")

\* C19 (as claimed): a finished create_folder call issued one creation request
\* per non-empty segment of its path, none with an empty name, from root to
\* leaf, each naming one segment with the segments before it as the parent.
C19_OneRequestPerSegment ==
    (op = "create_folder" /\ pc = "done") =>
        /\ \A k \in DOMAIN log : log[k].kind = "create_folder" /\ log[k].name # ""
        /\ Len(log) = Len(Segments(folder_name))
        /\ \A k \in DOMAIN log :
               /\ log[k].name = Segments(folder_name)[k]
               /\ normpath(log[k].uri) =
                      P(TRUE, SubSeq(Segments(folder_name), 1, k - 1))

C21_ParentMissingRaises ==
    op = "create_folder" =>
        \A k \in Creations :
            log[k].status = 404 =>
                /\ k = Len(log)
                /\ pc = "raised" /\ err = "NotExistsError"
                /\ i = k - 1
                /\ Puts = {}

\* a call ended on 404 for its second component, after the first was created
\* and with a component left
C21_SecondSegmentMissing ==
    /\ op = "create_folder" /\ pc = "raised" /\ err = "NotExistsError"
    /\ Len(log) = 2 /\ log[1].status = 200 /\ log[2].status = 404
    /\ Len(components) > 2

\* the entries of the local tree that are not directories, as paths of the
\* folder `path`
TreeFiles(path) ==
    UNION { {Yielded(path, d, LocalTree[d].files[n]) :
                n \in DOMAIN LocalTree[d].files} : d \in DOMAIN LocalTree }

\* the directories of the local tree, as paths of the folder `path`
TreeDirs(path) ==
    UNION { {Yielded(path, d, LocalTree[d].dirs[n]) :
                n \in DOMAIN LocalTree[d].dirs} : d \in DOMAIN LocalTree }

\* C22: the walk of a folder sync yields every file of the local folder
\* exactly once and no directory; the files the sync visits are those the walk
\* yields, in its order; and a sync that ran to its end without an exception
\* issued exactly one PUT for each of them, to the file's own name.
C22_EveryFileOnce ==
    op = "folder" =>
        LET w == _local_walk_gen(local_path, FALSE) IN
        /\ \A f \in TreeFiles(local_path) :
               Cardinality({k \in DOMAIN w : w[k] = f}) = 1
        /\ \A k \in DOMAIN w :
               w[k] \in TreeFiles(local_path) /\ w[k] \notin TreeDirs(local_path)
        /\ \A k \in DOMAIN files : walked(local_path, files[k]) = w[k]
        /\ pc = "done" =>
               \A k \in DOMAIN files :
                   /\ Cardinality({n \in Puts : log[n].file = k}) = 1
                   /\ \A n \in Puts :
                          log[n].file = k =>
                              basename(UrlTarget(log[n].uri)) = basename(files[k])

\* a sync of three files in two directories, next to an empty directory, ran
\* to its end with three PUTs and no other request but the existence checks
C22_ThreeFilesThreePuts ==
    /\ op = "folder" /\ pc = "done" /\ Len(files) = 3
    /\ Cardinality(Puts) = 3 /\ Creations = {}
    /\ dirname(files[1]) # dirname(files[2])
    /\ TreeDirs(local_path) # {}

\* C23: in a folder sync the existence check counts as "absent" exactly when
\* the detail answered is false: only then does the run go to create_folder
\* (where it ends); after any other detail, null included, no creation request
\* is issued for the parent and the next request is the file's PUT.
C23_UnknownCountsAsExisting ==
    op = "folder" =>
        \A k \in Asks :
            /\ log[k].detail = "false"
                   <=> (k = Len(log) /\ pc = "raised" /\ err = "TypeError")
            /\ log[k].detail \in {"null", "object"} =>
                   /\ \A n \in Creations : log[n].file # log[k].file
                   /\ k < Len(log) =>
                          log[k + 1].kind = "PUT" /\ log[k + 1].file = log[k].file

\* a sync ran to its end although the parent of a file was answered with null
\* and did not exist: the file was PUT and nothing was created
C23_NullParentNotCreated ==
    /\ op = "folder" /\ pc = "done" /\ Creations = {}
    /\ \E k \in Asks :
           /\ log[k].detail = "null" /\ ~log[k].existed
           /\ k < Len(log) /\ log[k + 1].kind = "PUT"

\* the third argument of the upload command typed, "" if there is none
ThirdArgument == IF Len(stdin[1]) >= 4 THEN stdin[1][4] ELSE ""

\* C24 (as claimed): the shell's `upload <local> <remote> [skip|overwrite]`
\* calls upload with overwrite when the third argument is overwrite, with skip
\* when it is skip or absent, and calls nothing and sends nothing when it is
\* anything else.
C24_PolicyFromThirdArgument ==
    (stdin # <<>> /\ stdin[1][1] = "upload" /\ Len(stdin[1]) >= 3) =>
        /\ ThirdArgument = "overwrite" =>
               (op \in {"upload", "file", "folder"} => exists = OVERWRITE)
        /\ ThirdArgument \in {"skip", ""} =>
               (op \in {"upload", "file", "folder"} => exists = SKIP)
        /\ ThirdArgument \notin {"overwrite", "skip", ""} =>
               (op \notin {"upload", "file", "folder"} /\ log = <<>>)

====
